---- MODULE Spec2Model ----
(***************************************************************************)
(* Model of the Vollara products backend (src/main.py): the startup        *)
(* seeding routine, the three product handlers (list, get, create), the    *)
(* slug derivation and the document serializer, over a document store      *)
(* whose collection "product" is a sequence of documents.                  *)
(*                                                                         *)
(* Python values are tagged records [tag, val]; a str is the sequence of   *)
(* its characters, a dict a function from keys to values, an ObjectId a    *)
(* number that str() turns into hexadecimal digits.                        *)
(***************************************************************************)
EXTENDS Integers, Sequences, FiniteSets, TLC

VARIABLES
    db,        \* TRUE: the store handle is a database; FALSE: db is None
    coll,      \* the documents of collection "product", in insertion order
    coll0,     \* the collection as it was when the process started
    nextId,    \* the number the store gives to the next ObjectId
    startup,   \* position of seed_products: "check", "insert", "done", "crashed"
    seedIdx,   \* number of samples seed_products has inserted
    seedEnd,   \* how seed_products ended: "", "no_db", "nonempty", "seeded", "error"
    reqs,      \* the create_product requests that have inserted their record
    last,      \* the response of the handler that finished last
    fnIn,      \* pure-function specifications: the argument
    fnOut      \* pure-function specifications: <<>> or <<result>>

vars == <<db, coll, coll0, nextId, startup, seedIdx, seedEnd, reqs, last, fnIn, fnOut>>

(***************************************************************************)
(* Bounds.                                                                 *)
(***************************************************************************)
MaxCreates == 2     \* create_product requests that reach the store
MaxTitleLen == 3    \* length of the titles given to the slug derivation

(***************************************************************************)
(* Python values.                                                          *)
(***************************************************************************)
None == [tag |-> "none", val |-> <<>>]
Str(s) == [tag |-> "str", val |-> s]
Num(n) == [tag |-> "num", val |-> <<n>>]
Bool(b) == [tag |-> "bool", val |-> <<b>>]
Oid(n) == [tag |-> "oid", val |-> <<n>>]
List(xs) == [tag |-> "list", val |-> xs]
Dict(m) == [tag |-> "map", val |-> m]

\* A str written as one opaque piece (a text no operation looks into).
Text(s) == Str(IF s = "" THEN <<>> ELSE <<s>>)

\* Python truthiness: None, "", 0, False, [] and {} are falsy.
Truthy(v) ==
    CASE v.tag = "none" -> FALSE
      [] v.tag = "num" -> v.val[1] # 0
      [] v.tag = "bool" -> v.val[1]
      [] v.tag = "oid" -> TRUE
      [] v.tag = "map" -> DOMAIN v.val # {}
      [] OTHER -> v.val # <<>>

\* dict.get(k): the value under k, None when the key is absent.
Get(d, k) == IF k \in DOMAIN d.val THEN d.val[k] ELSE None

\* d with d[k] = v.
Put(d, k, v) == Dict((k :> v) @@ d.val)

\* d without key k.
Drop(d, k) == Dict([j \in DOMAIN d.val \ {k} |-> d.val[j]])

(***************************************************************************)
(* ObjectId and its string form (bson.ObjectId, str(ObjectId)): the        *)
(* number in hexadecimal, most significant digit first.                    *)
(***************************************************************************)
HexDigits == <<"0", "1", "2", "3", "4", "5", "6", "7",
               "8", "9", "a", "b", "c", "d", "e", "f">>

OidStr(o) ==
    <<HexDigits[((o.val[1] \div 16) % 16) + 1], HexDigits[(o.val[1] % 16) + 1]>>

HexValue(c) == (CHOOSE i \in 1..16 : HexDigits[i] = c) - 1

\* ObjectId(pid): the identifier a hexadecimal string names.
ObjectId(s) == Oid(16 * HexValue(s[1]) + HexValue(s[2]))

(***************************************************************************)
(* str methods used by the slug derivation.                                *)
(***************************************************************************)
UpperCase == <<"A", "B", "C", "D", "E", "F", "G", "H", "I", "J", "K", "L", "M",
               "N", "O", "P", "Q", "R", "S", "T", "U", "V", "W", "X", "Y", "Z">>
LowerCase == <<"a", "b", "c", "d", "e", "f", "g", "h", "i", "j", "k", "l", "m",
               "n", "o", "p", "q", "r", "s", "t", "u", "v", "w", "x", "y", "z">>
Whitespace == {" ", "\t", "\n"}

LowerChar(c) ==
    IF \E i \in 1..26 : UpperCase[i] = c
    THEN LowerCase[CHOOSE i \in 1..26 : UpperCase[i] = c]
    ELSE c

\* str.lower()
Lower(s) == [i \in 1..Len(s) |-> LowerChar(s[i])]

RECURSIVE LStrip(_)
LStrip(s) ==
    IF s # <<>> /\ Head(s) \in Whitespace THEN LStrip(Tail(s)) ELSE s

RECURSIVE RStrip(_)
RStrip(s) ==
    IF s # <<>> /\ s[Len(s)] \in Whitespace
    THEN RStrip(SubSeq(s, 1, Len(s) - 1))
    ELSE s

\* str.strip()
Strip(s) == RStrip(LStrip(s))

\* str.replace(old, new) for a one-character old.
RECURSIVE Replace(_, _, _)
Replace(s, old, new) ==
    IF s = <<>> THEN <<>>
    ELSE (IF Head(s) = old THEN new ELSE <<Head(s)>>) \o Replace(Tail(s), old, new)

\* Mutant: the derivation without strip().
SlugFromTitle_NoStrip(title) ==
    Replace(Replace(Lower(title), " ", <<"-">>), "&", <<"a", "n", "d">>)

\* data["title"].lower().strip().replace(" ", "-").replace("&", "and")
SlugFromTitle(title) ==
    Replace(Replace(Strip(Lower(title)), " ", <<"-">>), "&", <<"a", "n", "d">>)

(***************************************************************************)
(* ProductIn: the request body, its defaults, and model_dump().            *)
(***************************************************************************)
ProductInDefaults ==
    [description |-> None, in_stock |-> Bool(TRUE), sku |-> None, images |-> None,
     features |-> None, slug |-> None, brand |-> Text("Vollara")]

\* ProductIn(**given): the given fields, the others at their defaults.
ProductIn(given) == given @@ ProductInDefaults

\* product.model_dump(): the fields as a dict.
model_dump(p) == Dict(p)

\* The "ensure slug" step of create_product.
EnsureSlug(data) ==
    IF ~Truthy(Get(data, "slug"))
    THEN Put(data, "slug", Str(SlugFromTitle(Get(data, "title").val)))
    ELSE data

(***************************************************************************)
(* _serialize: a store document as a wire record.                          *)
(***************************************************************************)
\* str(v) for the values a document holds under "_id": an ObjectId or a str.
PyStr(v) == IF v.tag = "oid" THEN Str(OidStr(v)) ELSE v

_serialize(doc) ==
    IF ~Truthy(doc) THEN doc
    ELSE LET d1 == IF Truthy(Get(doc, "_id"))
                   THEN Put(Drop(doc, "_id"), "id", PyStr(Get(doc, "_id")))
                   ELSE doc
         IN Dict([k \in DOMAIN d1.val |->
                    IF d1.val[k].tag = "oid" THEN PyStr(d1.val[k]) ELSE d1.val[k]])

(***************************************************************************)
(* The document store (database.py and pymongo), as the handlers use it.   *)
(***************************************************************************)
\* A document matches a filter when it holds the filter's value under every key.
Matches(doc, filter) == \A k \in DOMAIN filter.val : Get(doc, k) = filter.val[k]

\* The positions of the documents matching a filter.
Matching(docs, filter) == {i \in 1..Len(docs) : Matches(docs[i], filter)}

\* Schema validation of a product: title and category non-empty, price >= 0.
ProductSchema(data) ==
    [ok |-> /\ Get(data, "title").tag = "str" /\ Get(data, "title").val # <<>>
            /\ Get(data, "price").tag = "num" /\ Get(data, "price").val[1] >= 0
            /\ Get(data, "category").tag = "str" /\ Get(data, "category").val # <<>>,
     doc |-> data]

\* create_document: the collection with the record added under a new id, and
\* the id in string form.
create_document(docs, record, n) ==
    [docs |-> Append(docs, Put(record, "_id", Oid(n))), id |-> OidStr(Oid(n))]

\* The first n elements of a sequence.
Take(s, n) == SubSeq(s, 1, IF n < Len(s) THEN n ELSE Len(s))

\* get_documents: the matching documents in the store's order, at most limit.
get_documents(docs, filter, limit) ==
    LET found == SelectSeq(docs, LAMBDA d : Matches(d, filter))
    IN IF limit.tag = "none" THEN found ELSE Take(found, limit.val[1])

(***************************************************************************)
(* seed_products: the three samples.                                       *)
(***************************************************************************)
Sample1Title ==
    <<"A", "i", "r", " ", "&", " ", "S", "u", "r", "f", "a", "c", "e", " ",
      "P", "r", "o">>
Sample1Slug ==
    <<"a", "i", "r", "-", "a", "n", "d", "-", "s", "u", "r", "f", "a", "c",
      "e", "-", "p", "r", "o">>
Sample1 ==
    ProductIn([title |-> Str(Sample1Title),
               slug |-> Str(Sample1Slug),
               description |-> Text("Advanced active air and surface purification for homes and businesses."),
               price |-> Num(799),
               category |-> Text("Air Purifier"),
               images |-> List(<<Text("https://images.unsplash.com/photo-1582719478250-c89cae4dc85b?w=1200&q=80&auto=format&fit=crop")>>),
               features |-> List(<<Text("ActivePure Technology"),
                                   Text("Covers large areas"),
                                   Text("Whisper-quiet operation")>>)])

Sample2Title ==
    <<"F", "r", "e", "s", "h", "A", "i", "r", " ", "P", "e", "r", "s", "o",
      "n", "a", "l">>
Sample2Slug ==
    <<"f", "r", "e", "s", "h", "a", "i", "r", "-", "p", "e", "r", "s", "o",
      "n", "a", "l">>
Sample2 ==
    ProductIn([title |-> Str(Sample2Title),
               slug |-> Str(Sample2Slug),
               description |-> Text("Wearable personal air purifier for on-the-go protection."),
               price |-> Num(199),
               category |-> Text("Wearable"),
               images |-> List(<<Text("https://images.unsplash.com/photo-1505740106531-4243f3831c78?w=1200&q=80&auto=format&fit=crop")>>),
               features |-> List(<<Text("Lightweight and portable"),
                                   Text("USB rechargeable"),
                                   Text("Personal clean-air zone")>>)])

Sample3Title ==
    <<"H", "y", "d", "r", "a", "t", "i", "o", "n", " ", "S", "y", "s", "t",
      "e", "m">>
Sample3Slug ==
    <<"l", "i", "v", "i", "n", "g", "-", "w", "a", "t", "e", "r">>
Sample3 ==
    ProductIn([title |-> Str(Sample3Title),
               slug |-> Str(Sample3Slug),
               description |-> Text("At-home water ionization and filtration for better-tasting water."),
               price |-> Num(1299),
               category |-> Text("Water"),
               images |-> List(<<Text("https://images.unsplash.com/photo-1548839140-29a749e1cf4d?w=1200&q=80&auto=format&fit=crop")>>),
               features |-> List(<<Text("Multiple pH levels"),
                                   Text("Advanced filtration"),
                                   Text("Easy-install countertop")>>)])

\* Mutant: the list without its last sample.
samples_short == <<Sample1, Sample2>>

samples == <<Sample1, Sample2, Sample3>>

\* Mutant: no except clause, the error ends the startup.
OnSeedException_Raise == "crashed"

\* The except clause of seed_products: the error is dropped and startup ends.
OnSeedException == "done"

(***************************************************************************)
(* Responses and requests.                                                 *)
(***************************************************************************)
\* A response: the handler, its argument, the HTTP status, the error kind and the
\* body; req is the create_product request answered after its insert, else 0.
Response(op, arg, status, err, body) ==
    [op |-> op, arg |-> arg, status |-> status, err |-> err, body |-> body, req |-> 0]

NoResponse == Response("none", None, 0, "", None)

\* A create_product request: "idle" (not received), "read" (record inserted, id
\* in pid, read-back to come) or "done" (answered).
IdleReq == [pc |-> "idle", input |-> None, data |-> None, pid |-> <<>>]

\* The create_product requests that have reached the store.
Created == Cardinality({i \in 1..MaxCreates : reqs[i].pc # "idle"})

(***************************************************************************)
(* What the clients send.                                                  *)
(***************************************************************************)
ClientTitle == <<"A", " ", "&", " ", "B">>
ClientSlug == <<"p", "1">>

ClientInput(t, s, pr, c) ==
    ProductIn([title |-> Str(t), slug |-> s, price |-> Num(pr), category |-> Text(c)])

\* The request bodies: a product without slug, one with a slug, one whose title
\* is a blank, and one each with an empty title, a negative price and an empty
\* category.
ClientInputs ==
    <<ClientInput(ClientTitle, None, 7, "Water"),
      ClientInput(ClientTitle, Str(ClientSlug), 7, "Water"),
      ClientInput(<<" ">>, None, 7, "Water"),
      ClientInput(<<>>, Str(ClientSlug), 7, "Water"),
      ClientInput(ClientTitle, None, -1, "Water"),
      ClientInput(ClientTitle, Str(ClientSlug), 7, "")>>

LookupSlugs == {ClientSlug, <<"z">>}
ListCategories == <<None, Text(""), Text("Water")>>
ListLimits == <<None, Num(1)>>

(***************************************************************************)
(* create_product.                                                         *)
(***************************************************************************)
\* data = product.model_dump() with its slug ensured.
CreateData(p) == EnsureSlug(model_dump(p))

\* Mutant: the dict handed to create_document as it is.
CreateRecord_Unchecked(data) == [ok |-> TRUE, doc |-> data]

\* ProductSchema(**data), the record handed to create_document.
CreateRecord(data) == ProductSchema(data)

\* db["product"].find_one(filter): the positions of the documents the store may
\* return (it promises no order), 0 standing for "no document".
find_one(docs, filter) ==
    IF Matching(docs, filter) = {} THEN {0} ELSE Matching(docs, filter)

DocAt(docs, j) == IF j = 0 THEN None ELSE docs[j]

\* Mutant: the read-back by slug.
ReadBackFilter_BySlug(req) == Dict("slug" :> Get(req.data, "slug"))

\* {"_id": ObjectId(pid)}: the filter of create_product's read-back.
ReadBackFilter(req) == Dict("_id" :> ObjectId(req.pid))

\* Validation, derivation and insert: create_product up to create_document.
create_product_insert ==
    /\ startup = "done"
    /\ \E pi \in DOMAIN ClientInputs :
          LET p == ClientInputs[pi]
              input == model_dump(p)
              data == CreateData(p)
              rec == CreateRecord(data)
          IN \/ /\ ~rec.ok
                /\ last' = Response("create", input, 500, "ValidationError", None)
                /\ UNCHANGED <<coll, nextId, reqs>>
             \/ /\ rec.ok /\ ~db
                /\ last' = Response("create", input, 500, "StoreUnavailable", None)
                /\ UNCHANGED <<coll, nextId, reqs>>
             \/ /\ rec.ok /\ db     \* create_document raises
                /\ last' = Response("create", input, 500, "WriteError", None)
                /\ UNCHANGED <<coll, nextId, reqs>>
             \/ /\ rec.ok /\ db
                /\ Created < MaxCreates
                /\ LET r == create_document(coll, rec.doc, nextId)
                   IN /\ coll' = r.docs
                      /\ nextId' = nextId + 1
                      /\ reqs' = [reqs EXCEPT ![Created + 1] =
                                    [pc |-> "read", input |-> input, data |-> data,
                                     pid |-> r.id]]
                /\ last' = last
    /\ UNCHANGED <<db, coll0, startup, seedIdx, seedEnd, fnIn, fnOut>>

\* The read-back by id and the response: the rest of create_product.
create_product_read ==
    /\ \E i \in 1..MaxCreates, ok \in BOOLEAN :
          /\ reqs[i].pc = "read"
          /\ \E j \in find_one(coll, ReadBackFilter(reqs[i])) :
                LET resp == IF ok
                            THEN Response("create", reqs[i].input, 201, "",
                                          _serialize(DocAt(coll, j)))
                            ELSE Response("create", reqs[i].input, 500, "ReadError", None)
                IN /\ reqs' = [reqs EXCEPT ![i].pc = "done"]
                   /\ last' = [resp EXCEPT !.req = i]
    /\ UNCHANGED <<db, coll, coll0, nextId, startup, seedIdx, seedEnd, fnIn, fnOut>>

(***************************************************************************)
(* get_product.                                                            *)
(***************************************************************************)
\* Mutant: the document returned as the store gave it.
GetResult_Unserialized(slug, doc) ==
    IF ~Truthy(doc)
    THEN Response("get", slug, 404, "Product not found", None)
    ELSE Response("get", slug, 200, "", doc)

\* Mutant: no 404, a missing document is serialized like any other.
GetResult_NoCheck(slug, doc) == Response("get", slug, 200, "", _serialize(doc))

\* What get_product answers with the document find_one gave.
GetResult(slug, doc) ==
    IF ~Truthy(doc)
    THEN Response("get", slug, 404, "Product not found", None)
    ELSE Response("get", slug, 200, "", _serialize(doc))

get_product ==
    /\ startup = "done"
    /\ \E s \in LookupSlugs :
          \/ /\ ~db     \* db["product"] on None raises, caught as a 500
             /\ last' = Response("get", Str(s), 500, "TypeError", None)
          \/ /\ db      \* find_one raises
             /\ last' = Response("get", Str(s), 500, "ReadError", None)
          \/ /\ db
             /\ \E j \in find_one(coll, Dict("slug" :> Str(s))) :
                   last' = GetResult(Str(s), DocAt(coll, j))
    /\ UNCHANGED <<db, coll, coll0, nextId, startup, seedIdx, seedEnd, reqs, fnIn, fnOut>>

(***************************************************************************)
(* list_products.                                                          *)
(***************************************************************************)
\* Mutant: the category is never put in the filter.
ListFilter_Empty(category) == Dict(<<>>)

\* filter_q: the category filter, when a category is given.
ListFilter(category) ==
    IF Truthy(category) THEN Dict("category" :> category) ELSE Dict(<<>>)

list_products ==
    /\ startup = "done"
    /\ \E ci \in DOMAIN ListCategories, li \in DOMAIN ListLimits :
          LET category == ListCategories[ci]
              limit == ListLimits[li]
              arg == Dict([category |-> category, limit |-> limit])
              docs == get_documents(coll, ListFilter(category), limit)
          IN \/ /\ ~db
                /\ last' = Response("list", arg, 500, "StoreUnavailable", None)
             \/ /\ db     \* get_documents raises
                /\ last' = Response("list", arg, 500, "ReadError", None)
             \/ /\ db
                /\ last' = Response("list", arg, 200, "",
                                    List([i \in 1..Len(docs) |-> _serialize(docs[i])]))
    /\ UNCHANGED <<db, coll, coll0, nextId, startup, seedIdx, seedEnd, reqs, fnIn, fnOut>>

(***************************************************************************)
(* seed_products, the startup handler.                                     *)
(***************************************************************************)
\* if db is None: return; count = db["product"].count_documents({})
seed_products_check ==
    /\ startup = "check"
    /\ \/ /\ ~db
          /\ startup' = "done"
          /\ seedEnd' = "no_db"
       \/ /\ db
          /\ \E ok \in BOOLEAN :
                IF ~ok
                THEN startup' = OnSeedException /\ seedEnd' = "error"
                ELSE IF Len(coll) = 0
                     THEN startup' = "insert" /\ seedEnd' = seedEnd
                     ELSE startup' = "done" /\ seedEnd' = "nonempty"
    /\ UNCHANGED <<db, coll, coll0, nextId, seedIdx, reqs, last, fnIn, fnOut>>

\* One turn of: for s in samples: create_document("product", ProductSchema(...))
seed_products_insert ==
    /\ startup = "insert"
    /\ LET rec == ProductSchema(model_dump(samples[seedIdx + 1]))
       IN \E ok \in BOOLEAN :
             IF rec.ok /\ ok
             THEN /\ coll' = create_document(coll, rec.doc, nextId).docs
                  /\ nextId' = nextId + 1
                  /\ seedIdx' = seedIdx + 1
                  /\ IF seedIdx + 1 = Len(samples)
                     THEN startup' = "done" /\ seedEnd' = "seeded"
                     ELSE startup' = startup /\ seedEnd' = seedEnd
             ELSE /\ startup' = OnSeedException
                  /\ seedEnd' = "error"
                  /\ UNCHANGED <<coll, nextId, seedIdx>>
    /\ UNCHANGED <<db, coll0, reqs, last, fnIn, fnOut>>

(***************************************************************************)
(* The service: a process starts on a store that is available or not and   *)
(* whose collection is empty or holds a product of an earlier run.         *)
(***************************************************************************)
PriorDoc ==
    create_document(<<>>, CreateData(ClientInput(<<"O", "l", "d">>, Str(ClientSlug),
                                                 7, "Water")), 1).docs[1]

Init ==
    /\ db \in BOOLEAN
    /\ coll0 \in {<<>>, <<PriorDoc>>}
    /\ coll = coll0
    /\ nextId = Len(coll0) + 1
    /\ startup = "check"
    /\ seedIdx = 0
    /\ seedEnd = ""
    /\ reqs = [i \in 1..MaxCreates |-> IdleReq]
    /\ last = NoResponse
    /\ fnIn = None
    /\ fnOut = <<>>

Next ==
    \/ seed_products_check
    \/ seed_products_insert
    \/ list_products
    \/ get_product
    \/ create_product_insert
    \/ create_product_read

Spec == Init /\ [][Next]_vars

(***************************************************************************)
(* The slug derivation and the serializer as functions: each specification *)
(* draws an argument and applies the function to it once.                  *)
(***************************************************************************)
\* No process: the service's variables at rest.
AtRest ==
    /\ db = FALSE
    /\ coll0 = <<>>
    /\ coll = <<>>
    /\ nextId = 1
    /\ startup = "check"
    /\ seedIdx = 0
    /\ seedEnd = ""
    /\ reqs = [i \in 1..MaxCreates |-> IdleReq]
    /\ last = NoResponse

SlugAlphabet == {"A", "b", " ", "&", "\t"}
TitlesUpTo(n) == UNION {[1..k -> SlugAlphabet] : k \in 0..n}
SlugChoices == <<None, Str(<<>>), Str(<<"P", " ", "&">>)>>

InitSlug ==
    /\ AtRest
    /\ \E t \in TitlesUpTo(MaxTitleLen) \cup {Sample1Title}, si \in DOMAIN SlugChoices :
          fnIn = ClientInput(t, SlugChoices[si], 7, "Water")
    /\ fnOut = <<>>

\* The data create_product hands on for the request body fnIn.
ensure_slug ==
    /\ fnOut = <<>>
    /\ fnOut' = <<CreateData(fnIn)>>
    /\ UNCHANGED <<db, coll, coll0, nextId, startup, seedIdx, seedEnd, reqs, last, fnIn>>

NextSlug == ensure_slug

SpecSlug == InitSlug /\ [][NextSlug]_vars

\* The documents given to _serialize: None, and dicts with or without "_id", with
\* a field "ref", a dict "meta" and a list "tags" that hold an ObjectId or a str.
Field(k, choices, i) == IF i = 0 THEN <<>> ELSE k :> choices[i]

SerDoc(a, b, c, d) ==
    Dict(Field("_id", <<Oid(26), Text("k1")>>, a)
         @@ Field("ref", <<Oid(43), Text("x")>>, b)
         @@ Field("meta", <<Dict("owner" :> Oid(60)), Dict("owner" :> Text("o"))>>, c)
         @@ Field("tags", <<List(<<Oid(77)>>), List(<<Text("t")>>)>>, d))

InitSerialize ==
    /\ AtRest
    /\ \/ fnIn = None
       \/ \E a \in 0..2, b \in 0..2, c \in 0..2, d \in 0..2 : fnIn = SerDoc(a, b, c, d)
    /\ fnOut = <<>>

serialize ==
    /\ fnOut = <<>>
    /\ fnOut' = <<_serialize(fnIn)>>
    /\ UNCHANGED <<db, coll, coll0, nextId, startup, seedIdx, seedEnd, reqs, last, fnIn>>

NextSerialize == serialize

SpecSerialize == InitSerialize /\ [][NextSerialize]_vars

(***************************************************************************)
(* Properties.                                                             *)
(***************************************************************************)
\* The create_product requests that have inserted their record.
Inserted == {i \in 1..MaxCreates : reqs[i].pc # "idle"}

\* The positions of the documents whose slug is s.
WithSlug(s) == {j \in 1..Len(coll) : Get(coll[j], "slug") = s}

\* A step that answers a request.
Answers == last' # last

\* A create_product that answered 201 for a body with a slug of its own is
\* followed by a get_product of that slug, which the store answers.
GetAfterCreate ==
    /\ last.op = "create" /\ last.status = 201
    /\ Truthy(Get(last.arg, "slug"))
    /\ Answers /\ last'.op = "get"
    /\ last'.arg = Get(last.arg, "slug")
    /\ last'.err # "ReadError"

\* get_product returned the created record: the fields of the request body and
\* the id create_product returned, a non-empty str.
ReturnsCreated ==
    /\ last'.status = 200
    /\ last'.body.tag = "map"
    /\ \A k \in DOMAIN last.arg.val : Get(last'.body, k) = last.arg.val[k]
    /\ Get(last'.body, "id").tag = "str"
    /\ Get(last'.body, "id").val # <<>>
    /\ Get(last'.body, "id") = Get(last.body, "id")

\* C1 as stated: whatever the collection held before, a successful create_product
\* with an explicit non-empty slug s followed by get_product(s) returns a record
\* with the fields of the input and the id the create returned.
C1_CreateThenGet == [][GetAfterCreate => ReturnsCreated]_vars

\* C1, amended: the same, provided the created record is the only one in the
\* collection with slug s when get_product runs.
C1_CreateThenGetUniqueSlug ==
    [][GetAfterCreate /\ Cardinality(WithSlug(last'.arg)) = 1 => ReturnsCreated]_vars

C1_Witness ==
    /\ last.op = "get" /\ last.status = 200
    /\ Cardinality(WithSlug(last.arg)) = 1
    /\ \E i \in Inserted :
          /\ reqs[i].pc = "done"
          /\ Get(reqs[i].input, "slug") = last.arg
          /\ Get(last.body, "id") = Str(reqs[i].pid)

\* C2 as stated: every record of the product collection has a non-empty slug.
C2_EverySlugNonEmpty ==
    \A j \in 1..Len(coll) :
        Get(coll[j], "slug").tag = "str" /\ Get(coll[j], "slug").val # <<>>

\* The slug the specification derives from a title: the characters between the
\* first and the last that is not whitespace, each in lower case, a space as a
\* hyphen and an ampersand as "and".
ClaimedChar(c) ==
    CASE c = " " -> <<"-">>
      [] c = "&" -> <<"a", "n", "d">>
      [] OTHER -> <<LowerChar(c)>>

RECURSIVE ClaimedChars(_, _, _)
ClaimedChars(t, i, hi) ==
    IF i > hi THEN <<>> ELSE ClaimedChar(t[i]) \o ClaimedChars(t, i + 1, hi)

ClaimedSlug(t) ==
    LET kept == {i \in 1..Len(t) : t[i] \notin Whitespace}
    IN IF kept = {} THEN <<>>
       ELSE ClaimedChars(t, CHOOSE i \in kept : \A j \in kept : i <= j,
                            CHOOSE i \in kept : \A j \in kept : i >= j)

\* The fields other than slug are those of the request body.
OtherFieldsKept ==
    \A k \in DOMAIN fnIn \ {"slug"} : Get(fnOut[1], k) = fnIn[k]

\* C3 as stated: without a slug in the request the slug is the one derived from
\* the title, and a slug the caller supplies is stored unchanged.
C3_DerivedOnlyWhenOmitted ==
    fnOut # <<>> =>
        /\ fnIn.slug = None => Get(fnOut[1], "slug") = Str(ClaimedSlug(fnIn.title.val))
        /\ fnIn.slug # None => Get(fnOut[1], "slug") = fnIn.slug

\* C3, amended: the slug is the one derived from the title when the request has
\* no slug or an empty one ("Air & Surface Pro" gives "air-and-surface-pro"), and
\* a non-empty slug the caller supplies is stored unchanged.
C3_DerivedWhenOmittedOrEmpty ==
    fnOut # <<>> =>
        /\ ~Truthy(fnIn.slug) =>
              Get(fnOut[1], "slug") = Str(ClaimedSlug(fnIn.title.val))
        /\ Truthy(fnIn.slug) => Get(fnOut[1], "slug") = fnIn.slug
        /\ fnIn.title.val = Sample1Title /\ fnIn.slug = None =>
              Get(fnOut[1], "slug") = Str(Sample1Slug)
        /\ OtherFieldsKept

C3_Witness ==
    /\ fnOut # <<>>
    /\ fnIn.title.val = <<" ", "A", "&">>
    /\ fnIn.slug = Str(<<>>)
    /\ Get(fnOut[1], "slug") = Str(<<"a", "a", "n", "d">>)

\* C4 as stated: get_product of a slug no record has answers 404, never 500,
\* whatever the state of the store handle.
C4_MissingIs404 ==
    last.op = "get" /\ WithSlug(last.arg) = {} => last.status = 404

\* C4, amended: get_product of a slug no record has answers 404 when the store
\* handle is available and the lookup raises no error, and 500 in the other
\* cases, among them an unavailable handle (db is None).
C4_MissingIs404WhenStoreAnswers ==
    last.op = "get" /\ WithSlug(last.arg) = {} =>
        /\ db /\ last.err # "ReadError" => last.status = 404
        /\ ~db \/ last.err = "ReadError" => last.status = 500

C4_Witness ==
    /\ last.op = "get" /\ last.status = 404
    /\ coll # <<>>
    /\ WithSlug(last.arg) = {}

\* The slugs of the collection, in its order.
Slugs == [j \in 1..Len(coll) |-> Get(coll[j], "slug").val]

OnlyCategory ==
    \A i \in 1..Len(last.body.val) :
        Get(last.body.val[i], "category") = Get(last.arg, "category")

\* C6 as stated: list_products with a category c, the empty string included,
\* returns only records whose category is c.
C6_OnlyCategory ==
    last.op = "list" /\ last.status = 200 /\ Get(last.arg, "category").tag = "str" =>
        OnlyCategory

\* The number of records list_products returns without a filter.
Unfiltered(limit) ==
    IF limit.tag = "num" /\ limit.val[1] < Len(coll) THEN limit.val[1] ELSE Len(coll)

\* C6, amended: list_products with a non-empty category c returns only records
\* whose category is c; with the empty string it filters nothing and returns the
\* records of the collection (up to limit) whatever their category.
C6_OnlyCategoryWhenNonEmpty ==
    /\ [](last.op = "list" /\ last.status = 200 /\ Truthy(Get(last.arg, "category")) =>
            OnlyCategory)
    /\ [][Answers /\ last'.op = "list" /\ last'.status = 200
          /\ Get(last'.arg, "category") = Str(<<>>) =>
             /\ Len(last'.body.val) = Unfiltered(Get(last'.arg, "limit"))
             /\ \A i \in 1..Len(last'.body.val) :
                   Get(last'.body.val[i], "id") = PyStr(Get(coll[i], "_id"))]_vars

C6_Witness ==
    /\ last.op = "list" /\ last.status = 200
    /\ Get(last.arg, "category") = Text("Water")
    /\ Get(last.arg, "limit") = None
    /\ Len(last.body.val) = 2
    /\ Len(coll) = 4

\* A request body or record with an empty title, a negative price or an empty
\* category.
Invalid(d) ==
    \/ Get(d, "title").val = <<>>
    \/ Get(d, "price").val[1] < 0
    \/ Get(d, "category").val = <<>>

\* C7: create_product with an empty title, a negative price or an empty category
\* fails with a validation error before any store interaction (also when the
\* store is unavailable), inserts no record and leaves the collection unchanged.
C7_ValidatesBeforeStore ==
    /\ [](last.op = "create" /\ Invalid(last.arg) =>
            last.status = 500 /\ last.err = "ValidationError")
    /\ [](\A j \in Len(coll0) + 1..Len(coll) : ~Invalid(coll[j]))
    /\ [][Answers /\ last'.op = "create" /\ Invalid(last'.arg) =>
             UNCHANGED <<coll, nextId, reqs>>]_vars

C7_Witness ==
    /\ last.op = "create" /\ last.err = "ValidationError"
    /\ Get(last.arg, "price").val[1] < 0
    /\ db /\ Len(coll) = 5

\* The positions of the record request i inserted.
StoredFor(i) == {j \in 1..Len(coll) : OidStr(Get(coll[j], "_id")) = reqs[i].pid}

\* C9: create_product requests, two with the same slug among them, whose inserts
\* and read-backs interleave in any order are all accepted: their ids differ,
\* the record of each is in the collection, and each read-back that the store
\* answers returns 201 with the record its own request inserted.
C9_ConcurrentCreatesAccepted ==
    /\ \A i, j \in Inserted : i # j => reqs[i].pid # reqs[j].pid
    /\ \A i \in Inserted :
          /\ Cardinality(StoredFor(i)) = 1
          /\ \A j \in StoredFor(i) : Drop(coll[j], "_id") = reqs[i].data
    /\ last.op = "create" /\ last.req # 0 =>
          last.status = 201 \/ last.err = "ReadError"
    /\ last.op = "create" /\ last.status = 201 =>
          /\ last.req \in Inserted
          /\ reqs[last.req].pc = "done"
          /\ last.body = Put(reqs[last.req].data, "id", Str(reqs[last.req].pid))

C9_Witness ==
    /\ last.op = "create" /\ last.status = 201 /\ last.req = 1
    /\ reqs[2].pc = "read"
    /\ Get(reqs[1].data, "slug") = Get(reqs[2].data, "slug")
    /\ Cardinality(WithSlug(Get(reqs[1].data, "slug"))) >= 2

\* C10: seed_products never lets an error out: startup ends in "done" whether
\* the store is unavailable, the check raises or an insert raises; without a
\* store handle nothing is touched; and samples are inserted only into a
\* collection that was empty at the check, behind which the earlier records stay.
C10_SeedingNeverBlocks ==
    /\ startup \in {"check", "insert", "done"}
    /\ seedEnd # "" => startup = "done"
    /\ ~db => seedIdx = 0 /\ coll = coll0 /\ nextId = Len(coll0) + 1
    /\ coll0 # <<>> => seedIdx = 0
    /\ startup # "done" => last = NoResponse /\ Inserted = {}
    /\ Len(coll) = Len(coll0) + seedIdx + Cardinality(Inserted)
    /\ SubSeq(coll, 1, Len(coll0)) = coll0

C10_Witness ==
    /\ seedEnd = "error" /\ seedIdx = 1
    /\ startup = "done"
    /\ last.op = "list" /\ last.status = 200

\* The wire record the serializer is specified to return: the primary key as
\* "id", and every ObjectId at any depth in its string form.
RECURSIVE DeepStr(_)
DeepStr(v) ==
    CASE v.tag = "oid" -> Str(OidStr(v))
      [] v.tag = "list" -> List([i \in DOMAIN v.val |-> DeepStr(v.val[i])])
      [] v.tag = "map" -> Dict([k \in DOMAIN v.val |-> DeepStr(v.val[k])])
      [] OTHER -> v

toWire(record) ==
    IF record = None THEN None
    ELSE IF "_id" \in DOMAIN record.val
         THEN DeepStr(Put(Drop(record, "_id"), "id", record.val["_id"]))
         ELSE DeepStr(record)

\* C8 as stated: _serialize returns None for None and otherwise the record with
\* "_id" renamed to "id" and every ObjectId, also inside nested dicts and lists,
\* replaced by its string form.
C8_SerializeDeep == fnOut # <<>> => fnOut[1] = toWire(fnIn)

====
